---- MODULE Spec2Model ----
(***************************************************************************)
(* The useTodos hook of my-todo (src/hooks/useTodos.ts) as a state machine.*)
(*                                                                         *)
(* The hook keeps three pieces of React state (todos, filter, the          *)
(* isPending flag of useTransition) and one useOptimistic queue.  Every    *)
(* operation of the hook is called from a discrete DOM event (click,       *)
(* change, submit, keydown, blur), so React processes the updates the      *)
(* handler queued on the sync lane and commits before the next event: one  *)
(* action below is one handler together with that synchronous commit.      *)
(* Updates on a transition lane (the setFilter inside startTransition, the *)
(* revert of an optimistic update) are committed later by a separate       *)
(* render, CommitTransition, which any number of events may precede.       *)
(***************************************************************************)
EXTENDS Integers, Sequences, FiniteSets, TLC

\* ---------------------------------------------------------------- bounds
MaxTodos == 2      \* tasks in the canonical collection
MaxLane == 2       \* updates waiting on the transition lanes

\* ----------------------------------------------------------------- types
\* The texts handed to addTodo / editTodo: empty, blank, plain, padded.
Texts == {<<>>, <<" ">>, <<"a">>, <<" ", "a", " ">>, <<"b">>}

FilterType == {"all", "active", "completed"}

\* The values Date.now() takes; they are also the ids a caller can name.
Clock == {1, 2}

Ids == Clock

\* ------------------------------------------------------- String.trim()
RECURSIVE TrimStart(_)
TrimStart(s) ==
    IF s = <<>> THEN <<>>
    ELSE IF Head(s) = " " THEN TrimStart(Tail(s)) ELSE s

RECURSIVE TrimEnd(_)
TrimEnd(s) ==
    IF s = <<>> THEN <<>>
    ELSE IF s[Len(s)] = " " THEN TrimEnd(SubSeq(s, 1, Len(s) - 1)) ELSE s

TrimString(s) == TrimEnd(TrimStart(s))

\* trim() of every text the handlers are called with, computed once.
TrimOfTexts == [t \in Texts |-> TrimString(t)]

Trim(s) == TrimOfTexts[s]

\* ---------------------------------------------------------------- state
VARIABLES
    todos,           \* useState<Todo[]>: the canonical collection
    filter,          \* useState<FilterType>: the committed criterion
    isPending,       \* useTransition: the committed pending flag
    pendingAdds,     \* useOptimistic: queued optimistic updates, oldest first
    filterQueue,     \* setFilter updates queued on the transition lane
    optimisticTodos, \* useOptimistic: the state the last render returned
    filteredTodos,   \* useMemo: the visible sequence of the last render
    stats,           \* useMemo: the stats of the last render
    now,             \* the clock Date.now() reads
    requested,       \* history: the criterion of the latest setFilter call
    lastOp,          \* history: the last operation that reached a state update
    inputValue       \* TodoForm, useState(''): the text in the input field

\* The state of the components around the hook.
formVars == <<inputValue>>

vars == <<todos, filter, isPending, pendingAdds, filterQueue, optimisticTodos,
          filteredTodos, stats, now, requested, lastOp, inputValue>>

\* -------------------------------------------------- derived computations
\* (state, optimisticTodo) => [optimisticTodo, ...state]
OptimisticReducer(state, optimisticTodo) == <<optimisticTodo>> \o state

\* useOptimistic(todos, reducer): the queued updates rebased on the passthrough
RECURSIVE UseOptimistic(_, _)
UseOptimistic(passthrough, queue) ==
    IF queue = <<>> THEN passthrough
    ELSE UseOptimistic(OptimisticReducer(passthrough, Head(queue)), Tail(queue))

\* Mutant: the cases of the switch are exchanged.
MatchesExchanged(todo, f) ==
    CASE f = "active" -> todo.completed
      [] f = "completed" -> ~todo.completed
      [] OTHER -> TRUE

\* the switch inside filteredTodos
Matches(todo, f) ==
    CASE f = "active" -> ~todo.completed
      [] f = "completed" -> todo.completed
      [] OTHER -> TRUE

\* Mutant: the last matching task is left out of the visible sequence.
FilterTodosPartial(list, f) ==
    LET Keep(todo) == Matches(todo, f)
        all == SelectSeq(list, Keep)
    IN IF all = <<>> THEN all ELSE SubSeq(all, 1, Len(all) - 1)

FilterTodos(list, f) ==
    LET Keep(todo) == Matches(todo, f) IN SelectSeq(list, Keep)

\* Mutant: completed counts every task, not only the completed ones.
ComputeStatsCountsAll(list) ==
    LET Open(todo) == ~todo.completed
    IN [total |-> Len(list),
        completed |-> Len(list),
        active |-> Len(SelectSeq(list, Open))]

ComputeStats(list) ==
    LET Done(todo) == todo.completed
        Open(todo) == ~todo.completed
    IN [total |-> Len(list),
        completed |-> Len(SelectSeq(list, Done)),
        active |-> Len(SelectSeq(list, Open))]

\* ----------------------------------------------- the setTodos updaters
\* Mutant: the text is stored as typed, without trim().
NewTodoUntrimmed(text, clock) ==
    [id |-> clock, text |-> text, completed |-> FALSE, createdAt |-> clock]

NewTodo(text, clock) ==
    [id |-> clock, text |-> Trim(text), completed |-> FALSE, createdAt |-> clock]

\* Mutant: the commit of the new task is lost.
AddUpdaterLost(prev, newTodo) == prev

AddUpdater(prev, newTodo) == <<newTodo>> \o prev

\* Mutant: the task is marked completed instead of flipped.
ToggleUpdaterCompletes(prev, id) ==
    LET Mark(todo) ==
            IF todo.id = id THEN [todo EXCEPT !.completed = TRUE] ELSE todo
    IN [i \in DOMAIN prev |-> Mark(prev[i])]

ToggleUpdater(prev, id) ==
    LET Flip(todo) ==
            IF todo.id = id THEN [todo EXCEPT !.completed = ~todo.completed] ELSE todo
    IN [i \in DOMAIN prev |-> Flip(prev[i])]

\* Mutant: the id is used as a position: the task at that index is removed.
DeleteUpdaterByIndex(prev, id) ==
    IF id \in DOMAIN prev
    THEN [i \in 1..(Len(prev) - 1) |-> IF i < id THEN prev[i] ELSE prev[i + 1]]
    ELSE prev

DeleteUpdater(prev, id) ==
    LET Keep(todo) == todo.id # id IN SelectSeq(prev, Keep)

\* Mutant: the edited task is rebuilt as a fresh task: completed is reset.
EditUpdaterResets(prev, id, newText) ==
    LET Put(todo) ==
            IF todo.id = id
            THEN [todo EXCEPT !.text = Trim(newText), !.completed = FALSE]
            ELSE todo
    IN [i \in DOMAIN prev |-> Put(prev[i])]

EditUpdater(prev, id, newText) ==
    LET Put(todo) ==
            IF todo.id = id THEN [todo EXCEPT !.text = Trim(newText)] ELSE todo
    IN [i \in DOMAIN prev |-> Put(prev[i])]

ClearUpdater(prev) ==
    LET Keep(todo) == ~todo.completed IN SelectSeq(prev, Keep)

\* --------------------------------------------------------------- renders
\* Mutant: stats is computed from the visible (filtered) sequence.
RenderStatsOfVisible(t, queue, f) ==
    /\ optimisticTodos' = UseOptimistic(t, queue)
    /\ filteredTodos' = FilterTodos(optimisticTodos', f)
    /\ stats' = ComputeStats(filteredTodos')

\* Mutant: the visible sequence is taken from the canonical collection.
RenderFiltersCanonical(t, queue, f) ==
    /\ optimisticTodos' = UseOptimistic(t, queue)
    /\ filteredTodos' = FilterTodos(t, f)
    /\ stats' = ComputeStats(optimisticTodos')

\* One render of the hook body from the given hook states.
Render(t, queue, f) ==
    /\ optimisticTodos' = UseOptimistic(t, queue)
    /\ filteredTodos' = FilterTodos(optimisticTodos', f)
    /\ stats' = ComputeStats(optimisticTodos')

\* Mutant: a setTodos update resets the criterion to all.
SyncCommitResetsFilter(t) ==
    /\ todos' = t
    /\ filter' = "all"
    /\ Render(t, pendingAdds', filter')
    /\ UNCHANGED <<isPending, filterQueue, now, requested>>

\* Mutant: a setTodos update waits until no transition is pending.
SyncCommitWhenIdle(t) ==
    /\ ~isPending
    /\ todos' = t
    /\ Render(t, pendingAdds', filter)
    /\ UNCHANGED <<filter, isPending, filterQueue, now, requested>>

\* A sync-lane commit: the transition lane is not rendered, so the queued
\* optimistic updates are applied again and the queued filter is not.
SyncCommit(t) ==
    /\ todos' = t
    /\ Render(t, pendingAdds', filter)
    /\ UNCHANGED <<filter, isPending, filterQueue, now, requested>>

Init ==
    /\ todos = <<>>
    /\ filter = "all"
    /\ isPending = FALSE
    /\ pendingAdds = <<>>
    /\ filterQueue = <<>>
    /\ optimisticTodos = <<>>
    /\ filteredTodos = <<>>
    /\ stats = [total |-> 0, completed |-> 0, active |-> 0]
    /\ now = 1
    /\ requested = "all"
    /\ lastOp = "init"
    /\ inputValue = <<>>

\* ------------------------------------------------------------ operations
\* Mutant: addTodo without the check of text.trim().
AddTodoUnchecked(text) ==
    /\ lastOp' = "add"
    /\ Len(todos) < MaxTodos
    /\ Len(filterQueue) + Len(pendingAdds) < MaxLane
    /\ LET newTodo == NewTodo(text, now) IN
       /\ pendingAdds' = Append(pendingAdds, newTodo)
       /\ SyncCommit(AddUpdater(todos, newTodo))

AddTodo(text) ==
    /\ lastOp' = IF Trim(text) # <<>> THEN "add" ELSE lastOp
    /\ Len(todos) < MaxTodos
    /\ Len(filterQueue) + Len(pendingAdds) < MaxLane
    /\ IF Trim(text) # <<>>
       THEN LET newTodo == NewTodo(text, now) IN
            /\ pendingAdds' = Append(pendingAdds, newTodo)
            /\ SyncCommit(AddUpdater(todos, newTodo))
       ELSE UNCHANGED <<todos, filter, isPending, pendingAdds, filterQueue,
                        optimisticTodos, filteredTodos, stats, now, requested>>

ToggleTodo(id) ==
    /\ lastOp' = "toggle"
    /\ UNCHANGED pendingAdds
    /\ SyncCommit(ToggleUpdater(todos, id))

DeleteTodo(id) ==
    /\ lastOp' = "delete"
    /\ UNCHANGED pendingAdds
    /\ SyncCommit(DeleteUpdater(todos, id))

\* Mutant: editTodo without the check of newText.trim().
EditTodoUnchecked(id, newText) ==
    /\ lastOp' = "edit"
    /\ UNCHANGED pendingAdds
    /\ SyncCommit(EditUpdater(todos, id, newText))

EditTodo(id, newText) ==
    /\ lastOp' = IF Trim(newText) # <<>> THEN "edit" ELSE lastOp
    /\ IF Trim(newText) # <<>>
       THEN /\ UNCHANGED pendingAdds
            /\ SyncCommit(EditUpdater(todos, id, newText))
       ELSE UNCHANGED <<todos, filter, isPending, pendingAdds, filterQueue,
                        optimisticTodos, filteredTodos, stats, now, requested>>

ClearCompleted ==
    /\ lastOp' = "clear"
    /\ UNCHANGED pendingAdds
    /\ SyncCommit(ClearUpdater(todos))

\* Mutant: setFilter is called outside startTransition.
UpdateFilterUrgent(newFilter) ==
    /\ lastOp' = "setFilter"
    /\ Len(filterQueue) + Len(pendingAdds) < MaxLane
    /\ filter' = newFilter
    /\ requested' = newFilter
    /\ Render(todos, pendingAdds, filter')
    /\ UNCHANGED <<todos, isPending, pendingAdds, filterQueue, now>>

\* startTransition(() => setFilter(newFilter)): the pending flag is raised on
\* the sync lane, setFilter and the lowering of the flag wait on the
\* transition lane.
UpdateFilter(newFilter) ==
    /\ lastOp' = "setFilter"
    /\ Len(filterQueue) + Len(pendingAdds) < MaxLane
    /\ filterQueue' = Append(filterQueue, newFilter)
    /\ isPending' = TRUE
    /\ requested' = newFilter
    /\ Render(todos, pendingAdds, filter)
    /\ UNCHANGED <<todos, filter, pendingAdds, now>>

\* Mutant: a setFilter of the criterion already set switches back to all.
RECURSIVE ApplyFilterToggling(_, _)
ApplyFilterToggling(f, queue) ==
    IF queue = <<>> THEN f
    ELSE ApplyFilterToggling(IF Head(queue) = f THEN "all" ELSE Head(queue),
                             Tail(queue))

\* Mutant: the first queued setFilter wins, the later ones are dropped.
ApplyFirstQueued(f, queue) == IF queue = <<>> THEN f ELSE Head(queue)

\* The state a queue of setFilter updates leaves: each replaces the state.
ApplyFilterQueue(f, queue) == IF queue = <<>> THEN f ELSE queue[Len(queue)]

\* Mutant: the optimistic updates are never reverted.
KeepOptimistic(queue) == queue

\* The optimistic updates left in the queue once their revert lane renders.
RevertOptimistic(queue) == <<>>

\* Mutant: the transition lane is rendered for optimistic updates only: a
\* queued setFilter is never applied.
CommitTransitionSkipsFilter ==
    /\ lastOp' = "commit"
    /\ filterQueue = <<>> /\ pendingAdds # <<>>
    /\ pendingAdds' = RevertOptimistic(pendingAdds)
    /\ Render(todos, pendingAdds', filter)
    /\ UNCHANGED <<todos, filter, filterQueue, isPending, now, requested>>

\* Mutant: the transition commits without lowering the pending flag.
CommitTransitionKeepsFlag ==
    /\ lastOp' = "commit"
    /\ filterQueue # <<>> \/ pendingAdds # <<>>
    /\ filter' = ApplyFilterQueue(filter, filterQueue)
    /\ filterQueue' = <<>>
    /\ pendingAdds' = RevertOptimistic(pendingAdds)
    /\ Render(todos, pendingAdds', filter')
    /\ UNCHANGED <<todos, isPending, now, requested>>

\* React renders the transition lanes: every queued setFilter is applied, the
\* pending flag is lowered and the optimistic updates are reverted.
CommitTransition ==
    /\ lastOp' = "commit"
    /\ filterQueue # <<>> \/ pendingAdds # <<>>
    /\ filter' = ApplyFilterQueue(filter, filterQueue)
    /\ filterQueue' = <<>>
    /\ isPending' = FALSE
    /\ pendingAdds' = RevertOptimistic(pendingAdds)
    /\ Render(todos, pendingAdds', filter')
    /\ UNCHANGED <<todos, now, requested>>

\* The clock moves between two events.
Tick ==
    /\ now + 1 \in Clock
    /\ now' = now + 1
    /\ UNCHANGED <<todos, filter, isPending, pendingAdds, filterQueue,
                   optimisticTodos, filteredTodos, stats, requested, lastOp>>

\* The hook called by any caller, in any order: the handlers of the hook say
\* nothing of the components' state, which such a caller leaves alone.
Next ==
    \/ \E text \in Texts : AddTodo(text) /\ UNCHANGED formVars
    \/ \E id \in Ids : ToggleTodo(id) /\ UNCHANGED formVars
    \/ \E id \in Ids : DeleteTodo(id) /\ UNCHANGED formVars
    \/ \E id \in Ids, newText \in Texts : EditTodo(id, newText) /\ UNCHANGED formVars
    \/ ClearCompleted /\ UNCHANGED formVars
    \/ \E newFilter \in FilterType : UpdateFilter(newFilter) /\ UNCHANGED formVars
    \/ CommitTransition /\ UNCHANGED formVars
    \/ Tick /\ UNCHANGED formVars

Spec == Init /\ [][Next]_vars

\* React's scheduler always gets to a pending transition lane.
FairSpec == Spec /\ WF_vars(CommitTransition /\ UNCHANGED formVars)

\* ---------------------------------------------------------- presentation
\* The hook as App wires it to the components: every call comes from a
\* control that is rendered and not disabled.
hookVars == <<todos, filter, isPending, pendingAdds, filterQueue,
              optimisticTodos, filteredTodos, stats, now, requested, lastOp>>

\* The ids of the rows TodoList renders.
RenderedIds == {filteredTodos[i].id : i \in DOMAIN filteredTodos}

\* onChange of the input field.
TypeText(t) ==
    /\ t # inputValue
    /\ inputValue' = t
    /\ UNCHANGED hookVars

\* Mutant: handleSubmit without setInputValue('').
HandleSubmitKeepsInput ==
    IF Trim(inputValue) # <<>>
    THEN AddTodo(inputValue) /\ UNCHANGED inputValue
    ELSE UNCHANGED vars

HandleSubmit ==
    IF Trim(inputValue) # <<>>
    THEN AddTodo(inputValue) /\ inputValue' = <<>>
    ELSE UNCHANGED vars

\* handleKeyDown on Enter: handleSubmit runs on the key event, whose
\* preventDefault cancels the implicit submission of the form.
PressEnter == HandleSubmit

\* The Add button is rendered while the input is not blank; its click
\* submits the form.
ClickAdd ==
    /\ Trim(inputValue) # <<>>
    /\ HandleSubmit

\* Mutant: the filter buttons without disabled={isPending}.
ClickFilterWhilePending(f) ==
    /\ stats.total > 0
    /\ UpdateFilter(f)
    /\ UNCHANGED formVars

\* TodoFilters is rendered while there is a task; its buttons are disabled
\* while the transition is pending.
ClickFilter(f) ==
    /\ stats.total > 0
    /\ ~isPending
    /\ UpdateFilter(f)
    /\ UNCHANGED formVars

ClickClearCompleted ==
    /\ stats.total > 0
    /\ stats.completed > 0
    /\ ~isPending
    /\ ClearCompleted
    /\ UNCHANGED formVars

ClickToggle(id) ==
    /\ id \in RenderedIds
    /\ ToggleTodo(id)
    /\ UNCHANGED formVars

ClickDelete(id) ==
    /\ id \in RenderedIds
    /\ DeleteTodo(id)
    /\ UNCHANGED formVars

\* TodoItem.handleSave: a blank edit is dropped by the row itself.
SaveEdit(id, editText) ==
    /\ id \in RenderedIds
    /\ IF Trim(editText) # <<>>
       THEN EditTodo(id, editText) /\ UNCHANGED formVars
       ELSE UNCHANGED vars

UiNext ==
    \/ \E t \in Texts : TypeText(t)
    \/ PressEnter
    \/ ClickAdd
    \/ \E f \in FilterType : ClickFilter(f)
    \/ ClickClearCompleted
    \/ \E id \in Ids : ClickToggle(id)
    \/ \E id \in Ids : ClickDelete(id)
    \/ \E id \in Ids, editText \in Texts : SaveEdit(id, editText)
    \/ CommitTransition /\ UNCHANGED formVars
    \/ Tick /\ UNCHANGED formVars

UiSpec == Init /\ [][UiNext]_vars

\* ------------------------------------------------------- batched updates
\* The texts of the calls: a blank one and two that differ.
CallTexts == {<<" ">>, <<"a">>, <<"b">>}

\* One call of a mutation of the hook, with its arguments.
Calls ==
    {[op |-> "add", id |-> 0, text |-> t] : t \in CallTexts}
    \cup {[op |-> "toggle", id |-> i, text |-> <<>>] : i \in Ids}
    \cup {[op |-> "edit", id |-> i, text |-> t] : i \in Ids, t \in CallTexts}
    \cup {[op |-> "delete", id |-> i, text |-> <<>>] : i \in Ids}
    \cup {[op |-> "clear", id |-> 0, text |-> <<>>]}

\* The call reaches setTodos: addTodo and editTodo return early on a blank text.
Enqueues(c) == c.op \in {"add", "edit"} => Trim(c.text) # <<>>

\* The updater the call hands to setTodos, applied to prev.
UpdaterOf(c, prev, clock) ==
    IF ~Enqueues(c) THEN prev
    ELSE IF c.op = "add" THEN AddUpdater(prev, NewTodo(c.text, clock))
    ELSE IF c.op = "toggle" THEN ToggleUpdater(prev, c.id)
    ELSE IF c.op = "edit" THEN EditUpdater(prev, c.id, c.text)
    ELSE IF c.op = "delete" THEN DeleteUpdater(prev, c.id)
    ELSE ClearUpdater(prev)

\* Mutant: every update is computed from the collection of the last render
\* (setTodos(value) of a stale closure), so that the last one wins.
ProcessUpdateQueueStale(base, calls, clock) ==
    IF calls = <<>> THEN base
    ELSE UpdaterOf(calls[Len(calls)], base, clock)

\* React's processing of the queue of a useState hook at the next render:
\* every queued updater gets the result of the one before it.
RECURSIVE ProcessUpdateQueue(_, _, _)
ProcessUpdateQueue(base, calls, clock) ==
    IF calls = <<>> THEN base
    ELSE ProcessUpdateQueue(UpdaterOf(Head(calls), base, clock), Tail(calls), clock)

\* The optimistic tasks the calls hand to addOptimisticTodo.
RECURSIVE OptimisticAddsOf(_, _)
OptimisticAddsOf(calls, clock) ==
    IF calls = <<>> THEN <<>>
    ELSE (IF Head(calls).op = "add" /\ Enqueues(Head(calls))
          THEN <<NewTodo(Head(calls).text, clock)>> ELSE <<>>)
         \o OptimisticAddsOf(Tail(calls), clock)

RECURSIVE LastOpOf(_, _)
LastOpOf(calls, last) ==
    IF calls = <<>> THEN last
    ELSE LastOpOf(Tail(calls), IF Enqueues(Head(calls)) THEN Head(calls).op ELSE last)

\* One call, rendered before the next one.
Call(c) ==
    \/ c.op = "add" /\ AddTodo(c.text)
    \/ c.op = "toggle" /\ ToggleTodo(c.id)
    \/ c.op = "edit" /\ EditTodo(c.id, c.text)
    \/ c.op = "delete" /\ DeleteTodo(c.id)
    \/ c.op = "clear" /\ ClearCompleted

\* Calls made back to back in one event handler: React batches their
\* updates and renders once.
BatchedCalls(calls) ==
    LET adds == OptimisticAddsOf(calls, now) IN
    /\ Len(todos) + Len(adds) <= MaxTodos
    /\ Len(filterQueue) + Len(pendingAdds) + Len(adds) <= MaxLane
    /\ lastOp' = LastOpOf(calls, lastOp)
    /\ pendingAdds' = pendingAdds \o adds
    /\ SyncCommit(ProcessUpdateQueue(todos, calls, now))

BatchNext ==
    \/ \E c \in Calls : Call(c) /\ UNCHANGED formVars
    \/ \E c1, c2 \in Calls : BatchedCalls(<<c1, c2>>) /\ UNCHANGED formVars
    \/ CommitTransition /\ UNCHANGED formVars
    \/ Tick /\ UNCHANGED formVars

BatchSpec == Init /\ [][BatchNext]_vars

\* ================================================================ claims
\* What a criterion selects, stated apart from the hook's own switch.
Satisfies(todo, f) ==
    \/ f = "all"
    \/ f = "active" /\ todo.completed = FALSE
    \/ f = "completed" /\ todo.completed = TRUE

\* v is the complete filter of list by f, in the order of list.
IsFilterOf(v, list, f) ==
    LET Sel(todo) == Satisfies(todo, f) IN v = SelectSeq(list, Sel)

\* The positions of list that hold a task with this id.
Positions(list, id) == {i \in DOMAIN list : list[i].id = id}

\* C1: no two tasks of the canonical collection share an id, whatever the
\* clock values at which addTodo is called.
C1_UniqueIds ==
    \A i, j \in DOMAIN todos : i # j => todos[i].id # todos[j].id

\* C2: under filter All every task of the canonical collection, from the
\* addTodo call on, is shown exactly once, as the canonical task: the
\* optimistic entry and the committed task never both show.
C2_AddedTaskShownOnce ==
    filter = "all" =>
        \A i \in DOMAIN todos :
            /\ Cardinality(Positions(filteredTodos, todos[i].id)) = 1
            /\ \A j \in Positions(filteredTodos, todos[i].id) : filteredTodos[j] = todos[i]

C4_TotalIsCanonical == stats.total = Len(todos)

\* C5 as claimed: getFilter() returns the criterion of the latest setFilter
\* call in every state, also while the transition is pending.
C5_FilterAppliedImmediately == filter = requested

\* C5 amended: a setFilter call raises isPending and leaves the criterion
\* getFilter() returns as it was, no step into a pending state changes that
\* criterion, and it is the latest requested one whenever isPending is false.
C5_FilterAppliedAtCommit ==
    /\ [](~isPending => filter = requested)
    /\ [][lastOp' = "setFilter" => isPending']_vars
    /\ [][isPending' => filter' = filter]_vars

\* C5 witness: setFilter was called and the returned criterion is still the
\* old one.
C5_Witness ==
    /\ lastOp = "setFilter"
    /\ isPending
    /\ filter # requested
    /\ IsFilterOf(filteredTodos, optimisticTodos, filter)

\* C6: isPending is true exactly in the states in which a setFilter update
\* is outstanding; it is false in the initial state.
C6_PendingIffOutstanding == isPending = (filterQueue # <<>>)

\* C6 witness: a setFilter update is outstanding over a non-empty collection.
C6_Witness ==
    /\ lastOp = "setFilter"
    /\ filterQueue # <<>>
    /\ isPending
    /\ todos # <<>>

\* C7: when two setFilter calls are outstanding together, the hook eventually
\* returns the criterion of the later one with its visible sequence, and a
\* settled state never shows another criterion than the latest requested.
C7_LatestFilterWins ==
    /\ (Len(filterQueue) >= 2) ~>
           (/\ ~isPending
            /\ filter = requested
            /\ IsFilterOf(filteredTodos, optimisticTodos, requested))
    /\ [][(isPending /\ ~isPending') => filter' = requested]_vars

\* C7 witness: setFilter(f1) then setFilter(f2), f1 # f2, both outstanding.
C7_Witness ==
    /\ lastOp = "setFilter"
    /\ Len(filterQueue) = 2
    /\ filterQueue[1] # filterQueue[2]
    /\ requested = filterQueue[2]
    /\ filter # requested

\* C8: the visible sequence a transition commits is the complete filter of
\* the current collection by the most recently requested criterion.
C8_CommitIsLatestComplete ==
    [][(filterQueue # <<>> /\ filterQueue' = <<>>) =>
          (/\ IsFilterOf(filteredTodos', todos', requested')
           /\ filter' = requested')]_vars

\* C8 witness: a transition has committed criterion Active over a collection
\* with a completed and an active task, and the completed one is hidden.
C8_Witness ==
    /\ lastOp = "commit"
    /\ filter = "active"
    /\ \E i \in DOMAIN todos : todos[i].completed
    /\ filteredTodos # <<>>
    /\ Len(filteredTodos) < Len(todos)

\* C9: while a setFilter update is pending no mutation is blocked, and a
\* mutation that changes the collection shows at once in the visible sequence
\* and the stats, with the filter update still pending.
C9_MutationNotBlocked ==
    /\ [](isPending =>
            /\ ENABLED ClearCompleted
            /\ \A id \in Ids :
                  /\ ENABLED ToggleTodo(id)
                  /\ ENABLED DeleteTodo(id)
                  /\ \A newText \in Texts : ENABLED EditTodo(id, newText))
    /\ [][(isPending /\ todos' # todos) =>
            (/\ isPending'
             /\ filterQueue' = filterQueue
             /\ IsFilterOf(filteredTodos', UseOptimistic(todos', pendingAdds'), filter')
             /\ stats'.total = Len(todos') + Len(pendingAdds')
             /\ stats'.completed =
                    Cardinality({i \in DOMAIN todos' : todos'[i].completed}))]_vars

\* C9 witness: toggleTodo completed a task while setFilter(Active) is pending,
\* and the visible sequence shows it completed.
C9_Witness ==
    /\ lastOp = "toggle"
    /\ isPending
    /\ filter = "all"
    /\ requested = "active"
    /\ \E i \in DOMAIN filteredTodos : filteredTodos[i].completed

\* C10: after an addTodo the overlay-inclusive collection eventually equals
\* the canonical collection with no optimistic update left, and the two are
\* equal in every state with no add in flight.
C10_OverlayConverges ==
    /\ (pendingAdds # <<>>) ~> (pendingAdds = <<>> /\ optimisticTodos = todos)
    /\ [](pendingAdds = <<>> => optimisticTodos = todos)

\* C10 witness: an added task is in the canonical collection and the overlay
\* has been discarded.
C10_Witness ==
    /\ lastOp = "commit"
    /\ pendingAdds = <<>>
    /\ todos # <<>>
    /\ optimisticTodos = todos

\* The ids of the tasks of a list.
IdsOf(list) == {list[i].id : i \in DOMAIN list}

\* C11: whenever a later mutation has been applied, no optimistic entry of
\* an earlier add is still in the overlay: after toggle, edit, delete or
\* clearCompleted the overlay is empty, after an add it holds that add alone.
C11_OverlayGoneByNextMutation ==
    /\ lastOp \in {"toggle", "edit", "delete", "clear"} => pendingAdds = <<>>
    /\ lastOp = "add" => Len(pendingAdds) <= 1

\* C12: no rollback.  The task an add projects is the head of the canonical
\* collection in the same step, the overlay-inclusive collection always holds
\* every canonical task, a task leaves the canonical collection only by
\* deleteTodo or by clearCompleted when it is completed, and a task leaves
\* the overlay-inclusive collection only when it is no longer canonical.
C12_NoRollback ==
    /\ [](\A i \in DOMAIN todos : \E j \in DOMAIN optimisticTodos :
              optimisticTodos[j] = todos[i])
    /\ [][(lastOp' = "add" /\ Len(pendingAdds') > Len(pendingAdds)) =>
              (/\ todos' # <<>>
               /\ todos'[1] = pendingAdds'[Len(pendingAdds')]
               /\ optimisticTodos'[1] = todos'[1])]_vars
    /\ [][\A id \in Ids :
              (id \in IdsOf(todos) /\ id \notin IdsOf(todos')) =>
                  \/ lastOp' = "delete"
                  \/ /\ lastOp' = "clear"
                     /\ \A i \in Positions(todos, id) : todos[i].completed]_vars
    /\ [][\A id \in Ids :
              (id \in IdsOf(optimisticTodos) /\ id \notin IdsOf(optimisticTodos')) =>
                  id \notin IdsOf(todos')]_vars

\* C12 witness: a second add has just projected its task, and both added
\* tasks are in the canonical collection.
C12_Witness ==
    /\ lastOp = "add"
    /\ Len(pendingAdds) = 2
    /\ Len(todos) = 2
    /\ todos[1] = pendingAdds[2]
    /\ todos[2] = pendingAdds[1]

\* a is b with some elements left out, the order kept.
RECURSIVE IsSubsequence(_, _)
IsSubsequence(a, b) ==
    IF a = <<>> THEN TRUE
    ELSE IF b = <<>> THEN FALSE
    ELSE IF Head(a) = Head(b) THEN IsSubsequence(Tail(a), Tail(b))
    ELSE IsSubsequence(a, Tail(b))

\* C13: the order under filter All is the most-recent-first order of the
\* canonical collection (after addTask("A"), addTask("B") it is [B, A]).
C13_VisibleMostRecentFirst == filter = "all" => filteredTodos = todos

\* C13, the part on the canonical collection alone: an add prepends the new
\* task in front of the unchanged collection, toggle and edit keep every
\* position, delete and clearCompleted leave a subsequence.
C13_CanonicalOrder ==
    /\ [][lastOp' = "add" /\ todos' # todos =>
              (/\ Tail(todos') = todos
               /\ todos'[1].id = now
               /\ ~todos'[1].completed)]_vars
    /\ [][lastOp' \in {"toggle", "edit"} =>
              (/\ Len(todos') = Len(todos)
               /\ \A i \in DOMAIN todos :
                      /\ todos'[i].id = todos[i].id
                      /\ todos'[i].createdAt = todos[i].createdAt)]_vars
    /\ [][lastOp' \in {"delete", "clear"} => IsSubsequence(todos', todos)]_vars

\* A text that is empty or holds spaces only.
IsBlank(text) == \A i \in DOMAIN text : text[i] = " "

\* r is text without its leading and trailing spaces.
IsTrimOf(r, text) ==
    /\ r = <<>> \/ (r[1] # " " /\ r[Len(r)] # " ")
    /\ \E lead \in 0..Len(text) :
           /\ lead + Len(r) <= Len(text)
           /\ \A i \in 1..Len(text) :
                  IF i > lead /\ i <= lead + Len(r)
                  THEN text[i] = r[i - lead]
                  ELSE text[i] = " "

\* C14: addTodo with an empty or whitespace-only text changes nothing: no
\* task, no optimistic entry, the same visible sequence and stats.
C14_BlankAddIsNoOp ==
    \A text \in Texts :
        IsBlank(text) =>
            ~ENABLED (/\ AddTodo(text)
                      /\ <<todos, pendingAdds, optimisticTodos, filteredTodos, stats>>'
                             # <<todos, pendingAdds, optimisticTodos, filteredTodos, stats>>)

\* C14 witness: addTodo(" ") is called on a collection of one task and
\* leaves this very state.
C14_Witness ==
    /\ Len(todos) = 1
    /\ stats.total = 1
    /\ ENABLED (AddTodo(<<" ">>) /\ UNCHANGED vars)

\* C15: editTodo with an empty or whitespace-only text leaves the text of
\* the task and the whole canonical collection unchanged.
C15_BlankEditIsNoOp ==
    \A id \in Ids, newText \in Texts :
        IsBlank(newText) => ~ENABLED (EditTodo(id, newText) /\ todos' # todos)

\* C15 witness: editTodo(1, " ") is called on task 1 with text "a" and
\* leaves this very state.
C15_Witness ==
    /\ \E i \in DOMAIN todos : todos[i].id = 1 /\ todos[i].text = <<"a">>
    /\ ENABLED (EditTodo(1, <<" ">>) /\ UNCHANGED vars)

\* For every text of Texts, the text without its leading and trailing spaces.
TrimmedForm ==
    [text \in Texts |->
        CHOOSE r \in {SubSeq(text, a, b) : a \in 1..(Len(text) + 1), b \in 0..Len(text)} :
            IsTrimOf(r, text)]

\* The effect C16 gives editTodo(id, newText) on the canonical collection.
EditedAsClaimed(id, newText) ==
    /\ Len(todos') = Len(todos)
    /\ \A i \in DOMAIN todos :
           /\ todos'[i].id = todos[i].id
           /\ todos'[i].completed = todos[i].completed
           /\ todos'[i].createdAt = todos[i].createdAt
           /\ IF todos[i].id = id
              THEN todos'[i].text = TrimmedForm[newText]
              ELSE todos'[i].text = todos[i].text
    /\ (id \notin IdsOf(todos) => todos' = todos)

\* C16: editTodo with a non-blank text sets the text of every task with the
\* id to the trimmed text and changes nothing else: ids, completed flags,
\* createdAt, positions and all other tasks stay; an unknown id changes no
\* content.
C16_EditFrame ==
    \A id \in Ids, newText \in Texts :
        ~IsBlank(newText) =>
            ~ENABLED (EditTodo(id, newText) /\ ~EditedAsClaimed(id, newText))

\* C16 witness: the one task of the collection was added with text "a" (its
\* optimistic entry still says so), was completed, and an edit has set its
\* text to "b".
C16_Witness ==
    /\ lastOp = "edit"
    /\ Len(pendingAdds) = 1
    /\ Len(todos) = 1
    /\ pendingAdds[1].text = <<"a">>
    /\ todos[1] = [pendingAdds[1] EXCEPT !.text = <<"b">>, !.completed = TRUE]

\* The effect C17 gives toggleTodo(id) on the canonical collection.
ToggledAsClaimed(id) ==
    /\ Len(todos') = Len(todos)
    /\ \A i \in DOMAIN todos :
           /\ todos'[i].id = todos[i].id
           /\ todos'[i].text = todos[i].text
           /\ todos'[i].createdAt = todos[i].createdAt
           /\ todos'[i].completed =
                  IF todos[i].id = id THEN ~todos[i].completed
                  ELSE todos[i].completed
    /\ (id \notin IdsOf(todos) => todos' = todos)

\* C17: toggleTodo flips completed on every task with the id and changes
\* nothing else: ids, texts, createdAt, positions and all other tasks stay;
\* an unknown id changes no content.
C17_ToggleFrame ==
    \A id \in Ids : ~ENABLED (ToggleTodo(id) /\ ~ToggledAsClaimed(id))

\* C17 witness: of two tasks with different ids, a toggle has completed the
\* older one and left the newer one active.
C17_Witness ==
    /\ lastOp = "toggle"
    /\ Len(todos) = 2
    /\ todos[1].id # todos[2].id
    /\ ~todos[1].completed
    /\ todos[2].completed

\* The effect C18 gives deleteTodo(id) on the canonical collection.
DeletedAsClaimed(id) ==
    /\ IsSubsequence(todos', todos)
    /\ id \notin IdsOf(todos')
    /\ Len(todos') = Cardinality({i \in DOMAIN todos : todos[i].id # id})
    /\ (id \notin IdsOf(todos) => todos' = todos)

ClearedCanonical ==
    /\ IsSubsequence(todos', todos)
    /\ \A i \in DOMAIN todos' : ~todos'[i].completed
    /\ Len(todos') = Cardinality({i \in DOMAIN todos : ~todos[i].completed})

\* The stats C19 gives after clearCompleted().
ClearedStats ==
    /\ stats'.completed = 0
    /\ stats'.total = stats'.active
    /\ stats'.active = Cardinality({i \in DOMAIN todos : ~todos[i].completed})

\* C19: clearCompleted() replaces the canonical collection, in one step, by
\* exactly its subsequence of tasks with completed = false; afterwards
\* stats.completed = 0 and stats.total = stats.active = the number of active
\* tasks before the call.
C19_ClearCompleted ==
    ~ENABLED (ClearCompleted /\ ~(ClearedCanonical /\ ClearedStats))

\* C19, the part on the canonical collection alone, with the two stats
\* relations that do not depend on the count of tasks.
C19_CanonicalCleared ==
    ~ENABLED (/\ ClearCompleted
              /\ ~(/\ ClearedCanonical
                   /\ stats'.completed = 0
                   /\ stats'.total = stats'.active))

\* C20: every task of the canonical collection has a text that is not empty,
\* not whitespace-only and equal to its own trimmed form, whatever strings
\* addTodo and editTodo were called with.
C20_TextsTrimmedNonBlank ==
    \A i \in DOMAIN todos :
        /\ todos[i].text # <<>>
        /\ ~IsBlank(todos[i].text)
        /\ IsTrimOf(todos[i].text, todos[i].text)

\* Two tasks are stored, one of them edited: the texts a and b are both held.
C20_Witness ==
    /\ lastOp = "edit"
    /\ Len(todos) = 2
    /\ {todos[1].text, todos[2].text} = {<<"a">>, <<"b">>}

\* v holds exactly the tasks of list that satisfy f, in the order of list.
IsExactFilter(v, list, f) ==
    /\ IsSubsequence(v, list)
    /\ \A i \in DOMAIN v : Satisfies(v[i], f)
    /\ Len(v) = Cardinality({i \in DOMAIN list : Satisfies(list[i], f)})

\* C21: the visible sequence of a collection under a criterion is the full
\* collection for all, exactly the tasks with completed = false for active,
\* exactly those with completed = true for completed, in the order of the
\* collection; the empty collection gives the empty sequence under each.
C21_VisibleSequence ==
    \A f \in FilterType :
        LET v == FilterTodos(optimisticTodos, f) IN
        /\ IsExactFilter(v, optimisticTodos, f)
        /\ (f = "all" => v = optimisticTodos)
        /\ (optimisticTodos = <<>> => v = <<>>)

\* C21 witness: the collection holds a completed and an active task, and the
\* hook returns the completed one alone under the criterion completed.
C21_Witness ==
    /\ Len(optimisticTodos) = 2
    /\ ~optimisticTodos[1].completed
    /\ optimisticTodos[2].completed
    /\ filter = "completed"
    /\ filteredTodos = <<optimisticTodos[2]>>

\* The counts of the unfiltered collection.
CountsOf(list) ==
    [total |-> Len(list),
     completed |-> Cardinality({i \in DOMAIN list : list[i].completed}),
     active |-> Cardinality({i \in DOMAIN list : ~list[i].completed})]

\* C22: stats depends only on the unfiltered overlay-inclusive collection: it
\* is the counts of that collection under every criterion, a setFilter call
\* does not change it, and neither does the completion of a setFilter.
C22_StatsIgnoreFilter ==
    /\ stats = CountsOf(optimisticTodos)
    /\ \A f \in FilterType : ~ENABLED (UpdateFilter(f) /\ stats' # stats)
    /\ pendingAdds = <<>> => ~ENABLED (CommitTransition /\ stats' # stats)

\* C22 witness: two tasks, one completed; setFilter(active) has completed; the
\* visible sequence holds the incomplete task alone, stats says 2, 1, 1.
C22_Witness ==
    /\ lastOp = "commit"
    /\ filter = "active"
    /\ ~isPending
    /\ Len(todos) = 2
    /\ Len(filteredTodos) = 1
    /\ ~filteredTodos[1].completed
    /\ stats = [total |-> 2, active |-> 1, completed |-> 1]

\* C26: in every state, a transition pending or an add in flight included, the
\* returned sequence is exactly the filter of the overlay-inclusive collection
\* by the returned criterion: no task in it fails the criterion, no task that
\* satisfies the criterion is missing.
C26_ReturnedPairConsistent ==
    /\ IsSubsequence(filteredTodos, optimisticTodos)
    /\ \A i \in DOMAIN filteredTodos : Satisfies(filteredTodos[i], filter)
    /\ \A i \in DOMAIN optimisticTodos :
           Satisfies(optimisticTodos[i], filter) =>
               \E j \in DOMAIN filteredTodos : filteredTodos[j] = optimisticTodos[i]
    /\ Len(filteredTodos) =
           Cardinality({i \in DOMAIN optimisticTodos : Satisfies(optimisticTodos[i], filter)})

\* C26 witness: a setFilter is pending and an add is in flight while the
\* returned criterion hides a task of the collection.
C26_Witness ==
    /\ isPending
    /\ pendingAdds # <<>>
    /\ filter = "active"
    /\ \E i \in DOMAIN optimisticTodos : optimisticTodos[i].completed
    /\ filteredTodos # <<>>

\* C29: in every state and for every id, deleteTodo(id) shortens the
\* canonical collection by at most one task and toggleTodo(id) changes the
\* completed flag of at most one task.
C29_AtMostOneTaskAffected ==
    \A id \in Ids :
        /\ ~ENABLED (DeleteTodo(id) /\ Len(todos') < Len(todos) - 1)
        /\ ~ENABLED (/\ ToggleTodo(id)
                     /\ Cardinality({i \in DOMAIN todos :
                                        todos'[i].completed # todos[i].completed}) > 1)

\* The names of the five mutations.
Mutations == {"add", "toggle", "edit", "delete", "clear"}

\* C30: the five mutations leave the criterion and the pending flag
\* unchanged and setFilter leaves the canonical collection unchanged: the
\* criterion changes only by a queued setFilter taking effect, the collection
\* changes only in a mutation.
C30_FrameOfOperations ==
    /\ [][lastOp' \in Mutations =>
              (filter' = filter /\ isPending' = isPending)]_vars
    /\ [][lastOp' \in {"setFilter", "commit"} => todos' = todos]_vars
    /\ [][filter' # filter =>
              (/\ lastOp' = "commit"
               /\ filterQueue # <<>>
               /\ filter' = filterQueue[Len(filterQueue)])]_vars
    /\ [][todos' # todos => lastOp' \in Mutations]_vars

\* C30 witness: clearCompleted has run while a setFilter was pending under a
\* criterion other than all, and removed a task.
C30_Witness ==
    /\ lastOp = "clear"
    /\ isPending
    /\ filter = "completed"
    /\ requested = "active"
    /\ Len(todos) = 1
    /\ filteredTodos = <<>>

\* What the hook returns: the visible sequence, the criterion, the stats.
Returned == <<filteredTodos, filter, stats>>

\* The values the hook can return from the tasks it holds.
Outcomes ==
    {<<FilterTodos(list, f), f, ComputeStats(list)>> :
        f \in FilterType, list \in {todos, optimisticTodos}}

\* C23: setFilter(f) called twice in a row yields, once the updates have
\* completed, the same visible sequence, criterion and stats as setFilter(f)
\* called once: in a state reached by one setFilter(f), the transition
\* render returns some value (once), and after a second setFilter(f) the
\* transition render returns that same value (twice).
C23_SetFilterTwiceAsOnce ==
    lastOp = "setFilter" =>
        /\ \E once \in Outcomes : ENABLED (CommitTransition /\ Returned' = once)
        /\ \A once \in Outcomes :
               ENABLED (CommitTransition /\ Returned' = once) =>
                   ~ENABLED (/\ UpdateFilter(requested)
                             /\ (ENABLED (CommitTransition /\ Returned' # once))')

\* C23 witness: setFilter(f) was called twice in a row with f other than the
\* criterion in effect, and both calls are outstanding.
C23_Witness ==
    /\ lastOp = "setFilter"
    /\ Len(filterQueue) = 2
    /\ filterQueue[1] = filterQueue[2]
    /\ filter # requested
    /\ todos # <<>>

\* C24: every setFilter update terminates: from any state with the pending
\* flag raised a state is reached in which the flag is lowered and the
\* visible sequence is the filter of the current collection by the requested
\* criterion; the flag is never raised forever.
C24_SetFilterTerminates ==
    isPending ~>
        (/\ ~isPending
         /\ IsExactFilter(filteredTodos, optimisticTodos, requested))

\* C24 witness: a setFilter(completed) has completed; the visible sequence
\* holds the completed task and hides the active one.
C24_Witness ==
    /\ lastOp = "commit"
    /\ ~isPending
    /\ requested = "completed"
    /\ filter = "completed"
    /\ Len(filteredTodos) = 1
    /\ Len(optimisticTodos) = 2

\* The transition lane has room for one more update (the bound of the model).
LaneHasRoom == Len(filterQueue) + Len(pendingAdds) < MaxLane

\* C27: while isPending is true the filter buttons and the clear-completed
\* button are disabled, so between the start of a filter transition and its
\* completion the presentation issues no further setFilter (at most one is
\* queued) and no clearCompleted; once isPending is false the buttons that
\* are rendered can be clicked again.
C27_DisabledWhilePending ==
    /\ isPending =>
           /\ \A f \in FilterType : ~ENABLED ClickFilter(f)
           /\ ~ENABLED ClickClearCompleted
           /\ lastOp # "clear"
    /\ Len(filterQueue) <= 1
    /\ (~isPending /\ stats.total > 0 /\ LaneHasRoom) =>
           \A f \in FilterType : ENABLED ClickFilter(f)
    /\ (~isPending /\ stats.completed > 0) => ENABLED ClickClearCompleted

\* A transition is pending while a completed task is shown: the Clear button
\* is rendered and disabled, and a row was toggled meanwhile.
C27_Witness ==
    /\ isPending
    /\ Len(filterQueue) = 1
    /\ stats.completed > 0
    /\ lastOp = "toggle"

\* C28: one submission of the form creates at most one task: Enter (or the Add
\* button) with a non-blank input adds exactly one task, of the trimmed text,
\* and clears the input, so that the form's submit handler running again
\* without new typing adds nothing; a submission of a blank input adds
\* nothing.
C28_OneSubmissionOneTask ==
    /\ Trim(inputValue) # <<>> =>
           \A text \in {Trim(inputValue)} :
               /\ ~ENABLED (PressEnter /\ ~(/\ Len(todos') = Len(todos) + 1
                                            /\ todos'[1].text = text
                                            /\ inputValue' = <<>>))
               /\ ~ENABLED (PressEnter /\ (ENABLED (HandleSubmit /\ todos' # todos))')
               /\ ~ENABLED (ClickAdd /\ (ENABLED (HandleSubmit /\ todos' # todos))')
    /\ Trim(inputValue) = <<>> =>
           /\ ~ENABLED ClickAdd
           /\ ~ENABLED (PressEnter /\ todos' # todos)

\* Two tasks were added through the form, the input is empty again.
C28_Witness ==
    /\ lastOp = "add"
    /\ inputValue = <<>>
    /\ Len(todos) = 2
    /\ todos[1].text # todos[2].text

\* C25: mutations issued back to back before a re-render give the canonical
\* collection that the same calls give when each is rendered before the next
\* one is made, and none of them is lost.
C25_BatchedAsOneAtATime ==
    \A c1 \in Calls :
        \A batched \in {[c2 \in Calls |-> ProcessUpdateQueue(todos, <<c1, c2>>, now)]} :
            /\ \A c2 \in Calls :
                   ~ENABLED (BatchedCalls(<<c1, c2>>) /\ todos' # batched[c2])
            /\ ~ENABLED (Call(c1) /\ (\E c2 \in Calls :
                            ENABLED (Call(c2) /\ todos' # batched[c2]))')

\* A batch of an add and a toggle of the task that was there has been
\* rendered: both took effect.
C25_Witness ==
    /\ lastOp = "toggle"
    /\ Len(todos) = 2
    /\ Len(pendingAdds) = 1
    /\ todos[1] = pendingAdds[1]
    /\ todos[2].completed
    /\ todos[2].id # todos[1].id
====
